---------------------------- MODULE Spec2Model ----------------------------
(***************************************************************************)
(* A model of the lantern camera service:                                  *)
(*   - the nightly report runner and its daily lock                        *)
(*     (src/services/nightly_services.py),                                 *)
(*   - the frame cache, the capture loop's put and the stream consumer's   *)
(*     get (src/routers/cameras.py),                                       *)
(*   - the capture tasks with their reconnects, their dispatch to the      *)
(*     inference service and the shutdown handler (src/routers/cameras.py, *)
(*     src/main_copy.py),                                                  *)
(*   - the detection queue and its batching consumer                       *)
(*     (src/routers/cameras.py),                                           *)
(*   - the send loop of the nightly report (src/services/                  *)
(*     nightly_services.py, src/utils/whatsapp/whatsapp.py), the load of   *)
(*     the camera registry (src/routers/cameras.py) and the bulk insert    *)
(*     (src/utils/db/base.py),                                             *)
(*   - the message deduplication of the webhook (src/utils/cache.py).      *)
(* Each subsystem has its own next-state relation and specification over   *)
(* the one set of variables; Spec is their composition.                    *)
(***************************************************************************)
EXTENDS Integers, Sequences, FiniteSets, TLC

(***************************************************************************)
(* Bounds of the model.                                                    *)
(***************************************************************************)
NumRunners == 2
MaxDay == 3
MaxRestarts == 1
\* cameras of the registry (the source lists 32), and one id outside it
NumCameras == 2
\* concurrent stream consumers
NumConsumers == 2
\* detection results handed to handle_detection_result
MaxEvents == 12
\* seconds of time.time() the batcher is followed for
MaxTime == 36
\* detection results handed to handle_detection_result in one burst, the
\* consumer slower than the producers: two more than the queue holds
MaxBurst == 102
\* seconds of time.time() the capture tasks are followed for
MaxCaptureTime == 1
\* time.time() when the tasks start, in seconds (the source compares it with
\* a last_detection_time of 0)
StartTime == 100
\* rows in one call of bulk_insert_query
MaxRows == 4
\* the largest batch_size of a call
MaxBatchSize == 3
\* concurrent callers of is_message_processed
NumCallers == 2
\* steps of the clock of the message store, a third of the expiry each
MaxClockSteps == 4

(***************************************************************************)
(* Program constants of the nightly runner.                                *)
(***************************************************************************)
\* ex=90000 in valkey_client.set
LOCK_TTL == 90000
\* await asyncio.sleep(60) after a skip or a failure
SKIP_SLEEP == 60
\* timedelta(days=1), in seconds
DaySeconds == 24 * 3600
\* settings.SEND_NIGHT_REPORT_HOUR / _MINUTE: "wakes up at 5 AM Nairobi time"
TriggerSecond == 5 * 3600
\* settings.NIGHTLY_REPORT_RECIPIENT_NUMBER is a str; the send loop iterates it
\* (the leading characters of the number config.py names)
RecipientSetting == <<"2", "5", "4">>
\* the recipients that setting configures: the one number it holds
ConfiguredRecipients == <<RecipientSetting>>
\* how one delivery through the notification channel can go: requests.post
\* succeeds, raises ConnectionError or Timeout, raise_for_status raises
\* HTTPError, response.json() raises on the body
DeliveryOutcomes ==
    {"delivered", "connection_error", "timeout", "http_error", "bad_json"}

(***************************************************************************)
(* Program constants of the capture loop and the frame cache.              *)
(***************************************************************************)
\* max_consecutive_failures
MAX_CONSECUTIVE_FAILURES == 60

\* the keys of CAMERAS at import time
CamIds == 1 .. NumCameras
\* an id that is no key of CAMERAS
UnknownCam == NumCameras + 1
\* the ids a caller can pass
CamInputs == CamIds \cup {UnknownCam}
\* buffer.tobytes() of an encoded frame (never empty)
FrameVals == {"jpegA", "jpegB"}
Consumers == 1 .. NumConsumers
\* generate_rtsp_url returns a list of one URL (the Dahua format)
RtspUrls == <<"dahua">>
\* what probing or opening one URL can do
ProbeOutcomes == {"frame", "noframe", "closed", "exception"}
\* DETECTION_INTERVAL = 1.0, in seconds
DETECTION_INTERVAL == 1
\* the ways get_detections_from_service can fail: imencode reports failure,
\* the post raises a network error or a timeout, raise_for_status raises on
\* a 4xx/5xx status, response.json() raises on a malformed body
InferenceFailures ==
    {"encode_failed", "network_error", "timeout", "http_error", "bad_json"}
\* or it returns the decoded body: empty (falsy) or with detections
InferenceOutcomes == InferenceFailures \cup {"empty", "persons"}

(***************************************************************************)
(* Program constants of the detection queue and its consumer.              *)
(***************************************************************************)
\* asyncio.Queue(maxsize=100)
QUEUE_MAXSIZE == 100
\* asyncio.wait_for(detection_queue.get(), timeout=5.0)
GET_TIMEOUT == 5
\* len(batch) >= 10
SIZE_THRESHOLD == 10
\* (current_time - last_batch_time) > 30
AGE_THRESHOLD == 30

\* cache.py line 8
MESSAGE_ID_EXPIRATION_SECONDS == 300
\* the message ids callers pass
MessageIds == {"wamidA", "wamidB"}
Callers == 1 .. NumCallers

Runners == 1 .. NumRunners
Dates == 0 .. MaxDay
\* Python's None; True and False are written "True" and "False"
None == "None"
\* the time of a lock attempt that was never made
NoAttempt == -1

VARIABLES
    now,            \* datetime.now(nairobi_tz), seconds since 00:00 of date 0
    valkey,         \* the key-value store: lock date -> expiry time (0: never set)
    rpc,            \* runner -> position in nightly_report_task
    wake_at,        \* runner -> the time its current asyncio.sleep ends
    lock_key,       \* runner -> the date embedded in its lock_key
    was_set,        \* runner -> reply of valkey_client.set(..., nx=True)
    acquired,       \* runner -> the value _acquire_lock returned last
    key_absent,     \* runner -> whether the key was absent when the server ran the set
    overlapped,     \* runner -> its call overlapped another call with the same key
    runs,           \* date -> number of Locking -> Running transitions
    queries,        \* date -> number of storage queries for the report
    sends,          \* date -> number of notification sends
    restarts,       \* number of process restarts so far
    CAMERAS,        \* the keys of the CAMERAS dict
    current_frames, \* dict: camera id -> latest encoded frame or None
    frame_locks,    \* dict: camera id -> [kind, held] of its lock object
    cap_pc,         \* camera -> position of its capture_camera_frames task
    working_url,    \* camera -> the task's working_url, or None
    cap_open,       \* camera -> the persistent VideoCapture is open
    consecutive_failures, \* camera -> the task's failure counter
    last_put,       \* camera id -> the frame of the latest put call, or None
    put_result,     \* camera -> how the task's latest put ended
    con_pc,         \* consumer -> position of its request / generator
    con_cam,        \* consumer -> the cam_id it was called with
    con_out,        \* consumer -> what its latest step produced
    con_frame,      \* consumer -> the frame it yielded last, or None
    stream_active,  \* the global stream_active of cameras.py
    main_stream_active, \* the global stream_active of main_copy.py
    after_shutdown, \* camera -> its latest connect or read began after the
                    \* shutdown handler had run
    loop_blocked_by,\* the camera whose synchronous call holds the event
                    \* loop's thread, 0 when none does
    last_detection_time, \* camera -> the task's last_detection_time
    detection_result,    \* camera -> the task's detection_result, or None
    time_time,      \* time.time(), seconds since detection_processor started
    detection_queue,\* the asyncio.Queue: events in FIFO order
    put_waiters,    \* events whose detection_queue.put waits for a free slot
    produced,       \* number of events the producers have been given
    dequeued,       \* the events detection_queue.get has returned, in order
    batch,          \* detection_processor's batch
    last_batch_time,\* detection_processor's last_batch_time
    dp_pc,          \* position of detection_processor
    get_deadline,   \* when the pending wait_for(get) times out
    batch_first_time, \* when the first item of the batch was appended
    flush_calls,    \* the calls of send_detections_to_database, in order
    inserted,       \* the rows handed to bulk_insert_query, in order
    report_pc,      \* position of the send loop of nightly_report_task
    send_log,       \* the loop's passes: number, delivery, level logged
    last_attempt,   \* runner -> when its task made its latest lock attempt
    names_bound,    \* get_db and text are names of the module cameras.py
    load_result,    \* how the load_camera_configurations call ended, and
                    \* the exception raised inside it, or None
    load_log,       \* the levels that call logged at
    probe_log,      \* camera -> the URL tests of its latest stage 1
    probe_open,     \* camera -> the task's cap_test is a capture that was
                    \* opened and not released
    bi_pc,          \* position of the bulk_insert_query call
    query_values,   \* its argument query_values
    batch_size,     \* its argument batch_size
    bi_executed,    \* the value lists of the statements it executed
    bi_stored,      \* the rows the database holds after it
    bi_raised,      \* the exception it raised, or None
    mp_now,         \* the clock of the key-value store of cache.py, in seconds
    mp_store,       \* message id -> expiry of its processed_wamid key (0: never set)
    mp_pc,          \* caller -> position in is_message_processed
    mp_id,          \* caller -> the message_id of its call
    mp_was_set,     \* caller -> reply of client.set(..., nx=True)
    mp_absent,      \* caller -> whether the key was absent when the server ran the set
    mp_at,          \* caller -> when the server ran the set
    mp_result       \* caller -> the value its call returned, or None

nightlyVars == <<now, valkey, rpc, wake_at, lock_key, was_set, acquired,
                 key_absent, overlapped, runs, queries, sends, restarts>>

stopVars == <<stream_active, main_stream_active>>

dispatchVars == <<last_detection_time, detection_result>>

captureAux == <<stopVars, after_shutdown, loop_blocked_by, dispatchVars>>

cacheVars == <<CAMERAS, current_frames, frame_locks, cap_pc, working_url,
               cap_open, consecutive_failures, last_put, put_result,
               con_pc, con_cam, con_out, con_frame, captureAux>>

batcherVars == <<time_time, detection_queue, put_waiters, produced, dequeued, batch,
                 last_batch_time, dp_pc, get_deadline, batch_first_time,
                 flush_calls, inserted>>

reportVars == <<report_pc, send_log>>

registryVars == <<names_bound, load_result, load_log>>

bulkVars == <<bi_pc, query_values, batch_size, bi_executed, bi_stored,
              bi_raised>>

probeVars == <<probe_log, probe_open>>

messageVars == <<mp_now, mp_store, mp_pc, mp_id, mp_was_set, mp_absent,
                 mp_at, mp_result>>

extraVars == <<reportVars, last_attempt, registryVars, probeVars, bulkVars,
               messageVars>>

vars == <<nightlyVars, cacheVars, batcherVars, extraVars>>

(***************************************************************************)
(* Dates and the key-value store.                                          *)
(***************************************************************************)
\* datetime.date of a time
DateOf(t) == t \div DaySeconds

\* a key exists while its expiry lies in the future
KeyExists(kv, d, t) == kv[d] > t

\* SET key "locked" EX 90000 NX, executed atomically by the server:
\* the reply is True when the key was created and None when it existed
SetNxReply(kv, d, t) == IF KeyExists(kv, d, t) THEN None ELSE "True"

\* a refused attempt releases the key it did not create
SetNxStore_ReleasesOnRefusal(kv, d, t) ==
    IF KeyExists(kv, d, t) THEN [kv EXCEPT ![d] = 0]
    ELSE [kv EXCEPT ![d] = t + LOCK_TTL]

SetNxStore(kv, d, t) ==
    IF KeyExists(kv, d, t) THEN kv ELSE [kv EXCEPT ![d] = t + LOCK_TTL]

\* Python's  x == 0 : of the values at hand only 0 and False equal 0;
\* True == 0 and None == 0 are both False
PyEqualsZero(x) == x \in {"0", "False"}

\* a Python bool as the model writes it
PyBool(b) == IF b THEN "True" ELSE "False"

\* the reply not consulted: every caller is told it holds the lock
AcquireLockReturn_IgnoresReply(reply) == TRUE

\* the comparison turned around: was_set != 0
AcquireLockReturn_NotEq(reply) == ~PyEqualsZero(reply)

\* return was_set == 0
AcquireLockReturn(reply) == PyEqualsZero(reply)

\* the comparison turned around: if now_nairobi < target_time
TargetTime_TestReversed(t) ==
    LET today == DateOf(t) * DaySeconds + TriggerSecond
    IN  IF t < today THEN today + DaySeconds ELSE today

\* the day never added: the target is always today's trigger
TargetTime_AlwaysToday(t) == DateOf(t) * DaySeconds + TriggerSecond

\* target_time of the sleeping stage: today's trigger, or tomorrow's when passed
TargetTime(t) ==
    LET today == DateOf(t) * DaySeconds + TriggerSecond
    IN  IF t > today THEN today + DaySeconds ELSE today

SleepDuration(t) == TargetTime(t) - t

(***************************************************************************)
(* The frame cache: two dicts, current_frames and frame_locks.             *)
(***************************************************************************)
\* threading.Lock(), as line 248 builds the lock map
ThreadingLock == [kind |-> "threading", held |-> FALSE]

\* asyncio.Lock(), as load_camera_configurations would build it
AsyncioLock == [kind |-> "asyncio", held |-> FALSE]

\* "async with lock": only an asyncio lock has __aenter__ / __aexit__
SupportsAsyncWith(lock) == lock.kind = "asyncio"

\* "with lock": only a threading lock has __enter__ / __exit__
SupportsWith(lock) == lock.kind = "threading"

\* lines 474-475, the put of the capture loop:
\*   async with frame_locks[cam_id]: current_frames[cam_id] = buffer.tobytes()
\* the outcome and the dict afterwards
CachePutOutcome(locks, cam_id) ==
    IF cam_id \notin DOMAIN locks THEN "KeyError"
    ELSE IF ~SupportsAsyncWith(locks[cam_id]) THEN "TypeError"
    ELSE "stored"

CachePutFrames(locks, frames, cam_id, frame) ==
    IF CachePutOutcome(locks, cam_id) = "stored"
    THEN [c \in DOMAIN frames \cup {cam_id} |->
             IF c = cam_id THEN frame ELSE frames[c]]
    ELSE frames

\* lines 505-506, the get of the stream consumer:
\*   with frame_locks[cam_id]: frame = current_frames[cam_id]
\* followed by the choice of lines 508-510 between the frame and the placeholder
CacheGet(locks, frames, cam_id) ==
    IF cam_id \notin DOMAIN locks THEN [out |-> "KeyError", frame |-> None]
    ELSE IF ~SupportsWith(locks[cam_id]) THEN [out |-> "TypeError", frame |-> None]
    ELSE IF cam_id \notin DOMAIN frames THEN [out |-> "KeyError", frame |-> None]
    ELSE IF frames[cam_id] = None THEN [out |-> "placeholder", frame |-> None]
    ELSE [out |-> "frame", frame |-> frames[cam_id]]

\* the state at the start, with the lock map given
InitWith(locks) ==
    \* the runners start a minute before the trigger of date 1
    /\ now = DaySeconds + TriggerSecond - 60
    /\ valkey = [d \in Dates |-> 0]
    /\ rpc = [r \in Runners |-> "Start"]
    /\ wake_at = [r \in Runners |-> 0]
    /\ lock_key = [r \in Runners |-> 0]
    /\ was_set = [r \in Runners |-> None]
    /\ acquired = [r \in Runners |-> None]
    /\ key_absent = [r \in Runners |-> FALSE]
    /\ overlapped = [r \in Runners |-> FALSE]
    /\ runs = [d \in Dates |-> 0]
    /\ queries = [d \in Dates |-> 0]
    /\ sends = [d \in Dates |-> 0]
    /\ restarts = 0
    \* cameras.py lines 245-248: the module's globals
    /\ CAMERAS = CamIds
    /\ current_frames = [c \in CamIds |-> None]
    /\ frame_locks = locks
    /\ cap_pc = [c \in CamIds |-> "Locating"]
    /\ working_url = [c \in CamIds |-> None]
    /\ cap_open = [c \in CamIds |-> FALSE]
    /\ consecutive_failures = [c \in CamIds |-> 0]
    /\ last_put = [c \in CamInputs |-> None]
    /\ put_result = [c \in CamIds |-> "none"]
    /\ con_pc = [k \in Consumers |-> "idle"]
    /\ con_cam = [k \in Consumers |-> 0]
    /\ con_out = [k \in Consumers |-> "none"]
    /\ con_frame = [k \in Consumers |-> None]
    \* cameras.py line 246 and main_copy.py; lines 410-411 of each task
    /\ stream_active = TRUE
    /\ main_stream_active = TRUE
    /\ after_shutdown = [c \in CamIds |-> FALSE]
    /\ loop_blocked_by = 0
    /\ last_detection_time = [c \in CamIds |-> 0]
    /\ detection_result = [c \in CamIds |-> None]
    \* cameras.py lines 245 and 324-331: an empty queue, detection_processor
    \* in its first wait_for
    /\ time_time = 0
    /\ detection_queue = <<>>
    /\ put_waiters = <<>>
    /\ produced = 0
    /\ dequeued = <<>>
    /\ batch = <<>>
    /\ last_batch_time = 0
    /\ dp_pc = "Waiting"
    /\ get_deadline = GET_TIMEOUT
    /\ batch_first_time = 0
    /\ flush_calls = <<>>
    /\ inserted = <<>>
    \* no send loop, load, URL test or bulk insert has run yet
    /\ report_pc = "Idle"
    /\ send_log = <<>>
    /\ last_attempt = [r \in Runners |-> NoAttempt]
    /\ load_result = [ended |-> "none", failure |-> None]
    /\ load_log = {}
    /\ probe_log = [c \in CamIds |-> <<>>]
    /\ probe_open = [c \in CamIds |-> FALSE]
    /\ bi_pc = "Idle"
    /\ query_values = [kind |-> "list", value |-> <<>>]
    /\ batch_size = 1
    /\ bi_executed = <<>>
    /\ bi_stored = <<>>
    /\ bi_raised = None
    \* no call of is_message_processed has been made
    /\ mp_now = 0
    /\ mp_store = [m \in MessageIds |-> 0]
    /\ mp_pc = [c \in Callers |-> "Idle"]
    /\ mp_id = [c \in Callers |-> None]
    /\ mp_was_set = [c \in Callers |-> None]
    /\ mp_absent = [c \in Callers |-> FALSE]
    /\ mp_at = [c \in Callers |-> 0]
    /\ mp_result = [c \in Callers |-> None]

\* line 248: every camera's lock is a threading.Lock; lines 1-18 import
\* neither get_db nor text
Init ==
    /\ InitWith([c \in CamIds |-> ThreadingLock])
    /\ names_bound = FALSE

\* the lock map as line 248 builds it, or as load_camera_configurations
\* (line 305) rebuilds it with asyncio locks
InitLoaded ==
    /\ \E lock \in {ThreadingLock, AsyncioLock} :
          InitWith([c \in CamIds |-> lock])
    /\ names_bound = FALSE

(***************************************************************************)
(* nightly_report_task, one action per stretch between two awaits.         *)
(***************************************************************************)
\* lines 140-147: compute the target and go to sleep
ComputeSleep(r) ==
    /\ rpc[r] = "Start"
    /\ rpc' = [rpc EXCEPT ![r] = "Sleeping"]
    /\ wake_at' = [wake_at EXCEPT ![r] = now + SleepDuration(now)]
    /\ UNCHANGED <<cacheVars, batcherVars, extraVars>>
    /\ UNCHANGED <<now, valkey, lock_key, was_set, acquired, key_absent,
                   overlapped, runs, queries, sends, restarts>>

\* lines 149-154 and 30: wake, name the key after yesterday, send SET NX
WakeAndLock(r) ==
    /\ rpc[r] = "Sleeping"
    /\ now >= wake_at[r]
    /\ DateOf(now - DaySeconds) \in Dates
    /\ LET d == DateOf(now - DaySeconds)
       IN  /\ lock_key' = [lock_key EXCEPT ![r] = d]
           /\ overlapped' =
                 [q \in Runners |->
                     IF q = r
                     THEN \E o \in Runners \ {r} :
                              rpc[o] = "SetSent" /\ lock_key[o] = d
                     ELSE IF rpc[q] = "SetSent" /\ lock_key[q] = d
                          THEN TRUE ELSE overlapped[q]]
    /\ rpc' = [rpc EXCEPT ![r] = "SetSent"]
    /\ was_set' = [was_set EXCEPT ![r] = None]
    /\ acquired' = [acquired EXCEPT ![r] = None]
    /\ last_attempt' = [last_attempt EXCEPT ![r] = now]
    /\ UNCHANGED <<reportVars, registryVars, probeVars, bulkVars,
                   messageVars>>
    /\ UNCHANGED <<cacheVars, batcherVars>>
    /\ UNCHANGED <<now, valkey, wake_at, key_absent, runs, queries, sends,
                   restarts>>

\* the server executes the runner's SET NX and replies
ValkeySetNx(r) ==
    /\ rpc[r] = "SetSent"
    /\ key_absent' = [key_absent EXCEPT ![r] = ~KeyExists(valkey, lock_key[r], now)]
    /\ was_set' = [was_set EXCEPT ![r] = SetNxReply(valkey, lock_key[r], now)]
    /\ valkey' = SetNxStore(valkey, lock_key[r], now)
    /\ rpc' = [rpc EXCEPT ![r] = "SetReplied"]
    /\ UNCHANGED <<cacheVars, batcherVars, extraVars>>
    /\ UNCHANGED <<now, wake_at, lock_key, acquired, overlapped, runs, queries,
                   sends, restarts>>

\* lines 31 and 154-187: _acquire_lock returns; skip, or run the report
LockResult(r) ==
    /\ rpc[r] = "SetReplied"
    /\ LET ok == AcquireLockReturn(was_set[r])
           d == lock_key[r]
       IN  /\ acquired' = [acquired EXCEPT ![r] = PyBool(ok)]
           /\ IF ~ok
              THEN \* Skipped: sleep a minute, then recompute the target
                   /\ rpc' = [rpc EXCEPT ![r] = "Sleep60"]
                   /\ wake_at' = [wake_at EXCEPT ![r] = now + SKIP_SLEEP]
                   /\ UNCHANGED <<runs, queries, sends>>
              ELSE \* Running
                   /\ runs' = [runs EXCEPT ![d] = @ + 1]
                   /\ IF Len(RecipientSetting) = 0
                      THEN \* no recipient configured: log, sleep a minute
                           /\ rpc' = [rpc EXCEPT ![r] = "Sleep60"]
                           /\ wake_at' = [wake_at EXCEPT ![r] = now + SKIP_SLEEP]
                           /\ UNCHANGED <<queries, sends>>
                      ELSE /\ queries' = [queries EXCEPT ![d] = @ + 1]
                           /\ \E query_ok \in BOOLEAN :
                                 IF query_ok
                                 THEN \* one send per element of the setting
                                      /\ sends' = [sends EXCEPT
                                                     ![d] = @ + Len(RecipientSetting)]
                                      /\ rpc' = [rpc EXCEPT ![r] = "Start"]
                                      /\ UNCHANGED wake_at
                                 ELSE \* except Exception: log, sleep a minute
                                      /\ rpc' = [rpc EXCEPT ![r] = "Sleep60"]
                                      /\ wake_at' = [wake_at EXCEPT
                                                       ![r] = now + SKIP_SLEEP]
                                      /\ UNCHANGED sends
    /\ UNCHANGED <<cacheVars, batcherVars, extraVars>>
    /\ UNCHANGED <<now, valkey, lock_key, was_set, key_absent, overlapped,
                   restarts>>

\* the one-minute sleep ends: back to the head of the loop
Sleep60Done(r) ==
    /\ rpc[r] = "Sleep60"
    /\ now >= wake_at[r]
    /\ rpc' = [rpc EXCEPT ![r] = "Start"]
    /\ UNCHANGED <<cacheVars, batcherVars, extraVars>>
    /\ UNCHANGED <<now, valkey, wake_at, lock_key, was_set, acquired,
                   key_absent, overlapped, runs, queries, sends, restarts>>

\* the process of a runner is restarted while it sleeps
RestartRunner(r) ==
    /\ restarts < MaxRestarts
    /\ rpc[r] \in {"Sleeping", "Sleep60"}
    /\ restarts' = restarts + 1
    /\ rpc' = [rpc EXCEPT ![r] = "Start"]
    /\ last_attempt' = [last_attempt EXCEPT ![r] = NoAttempt]
    /\ UNCHANGED <<reportVars, registryVars, probeVars, bulkVars,
                   messageVars>>
    /\ UNCHANGED <<cacheVars, batcherVars>>
    /\ UNCHANGED <<now, valkey, wake_at, lock_key, was_set, acquired,
                   key_absent, overlapped, runs, queries, sends>>

\* the timers of the sleeping runners and the expiries of the keys
PendingTimes ==
    {wake_at[r] : r \in {q \in Runners : rpc[q] \in {"Sleeping", "Sleep60"}}}
    \cup {valkey[d] : d \in Dates}

\* time passes to the next timer while every runner sleeps
AdvanceClock ==
    /\ \A r \in Runners : rpc[r] \in {"Sleeping", "Sleep60"}
    /\ \A r \in Runners : wake_at[r] > now
    /\ \E t \in PendingTimes :
          /\ t > now
          /\ \A u \in PendingTimes : u > now => t <= u
          /\ DateOf(t) <= MaxDay
          /\ now' = t
    /\ UNCHANGED <<cacheVars, batcherVars, extraVars>>
    /\ UNCHANGED <<valkey, rpc, wake_at, lock_key, was_set, acquired,
                   key_absent, overlapped, runs, queries, sends, restarts>>

NextNightly ==
    \/ \E r \in Runners : ComputeSleep(r)
    \/ \E r \in Runners : WakeAndLock(r)
    \/ \E r \in Runners : ValkeySetNx(r)
    \/ \E r \in Runners : LockResult(r)
    \/ \E r \in Runners : Sleep60Done(r)
    \/ \E r \in Runners : RestartRunner(r)
    \/ AdvanceClock

SpecNightly == Init /\ [][NextNightly]_vars

(***************************************************************************)
(* The send loop of nightly_report_task and whatsapp_messenger.            *)
(***************************************************************************)
\* whatsapp.py lines 23-57: how the call ends for its caller. ACCESS_TOKEN
\* is a non-empty literal, so line 26 never raises; every
\* requests.exceptions.RequestException of lines 45-53 is caught at line 54
\* and logged at debug level; whatever else is raised is caught by
\* @logger.catch (line 23), which logs it and returns None
WhatsappMessenger(delivery) ==
    CASE delivery = "delivered" -> "returned"
      [] delivery \in {"connection_error", "timeout", "http_error"} ->
            "returned"
      [] OTHER -> "returned"

\* nightly_services.py lines 176-183: logger.success after a call that
\* returned, logger.error in the except branch
SendLogLevel(call) == IF call = "raised" THEN "error" ELSE "success"

\* lines 162-175: a recipient setting is present, the loop over it starts
ReportSendBegins ==
    /\ report_pc = "Idle"
    /\ Len(RecipientSetting) > 0
    /\ report_pc' = "Sending"
    /\ send_log' = <<>>
    /\ UNCHANGED <<last_attempt, registryVars, probeVars, bulkVars,
                   messageVars>>
    /\ UNCHANGED <<nightlyVars, cacheVars, batcherVars>>

\* lines 175-183: one pass of  for number in settings.N...NUMBER , the
\* elements of a str being its characters; number.strip() of a digit is
\* the digit
ReportSend ==
    /\ report_pc = "Sending"
    /\ LET i == Len(send_log) + 1
       IN  /\ i <= Len(RecipientSetting)
           /\ \E delivery \in DeliveryOutcomes :
                 send_log' = Append(send_log,
                     [number |-> <<RecipientSetting[i]>>,
                      delivery |-> delivery,
                      logged |-> SendLogLevel(WhatsappMessenger(delivery))])
           /\ report_pc' = IF i = Len(RecipientSetting) THEN "Done"
                           ELSE "Sending"
    /\ UNCHANGED <<last_attempt, registryVars, probeVars, bulkVars,
                   messageVars>>
    /\ UNCHANGED <<nightlyVars, cacheVars, batcherVars>>

NextReport == ReportSendBegins \/ ReportSend

SpecReport == Init /\ [][NextReport]_vars

(***************************************************************************)
(* load_camera_configurations, the load of the camera registry.            *)
(***************************************************************************)
\* what the query of lines 262-271 can do: raise, return no rows, or return
\* the rows of the cameras table
RegistryQueryOutcomes == {"raises", "no_rows", "rows"}

\* lines 264-265: the columns the query selects, the keys of each row
RowKeys == {"channel", "ip", "name", "location"}

\* lines 290-298: the keys the loop reads from a row
RowKeysRead == {"channel", "ip_address", "name", "location"}

\* lines 278-280 and 283-285: the three dicts are cleared
RegistryCleared ==
    /\ CAMERAS' = {}
    /\ current_frames' = [c \in {} |-> None]
    /\ frame_locks' = [c \in {} |-> AsyncioLock]

\* lines 251-316, one call. Line 259 evaluates get_db, and line 262 text:
\* while the module does not bind them, line 259 raises NameError outside
\* the try block. Inside it, every exception is caught at line 311, logged
\* at error level and dropped; the function then returns None
LoadCameraConfigurations ==
    /\ load_result.ended = "none"
    /\ IF ~names_bound
       THEN /\ load_result' = [ended |-> "raised", failure |-> "NameError"]
            /\ load_log' = {"info"}
            /\ UNCHANGED <<CAMERAS, current_frames, frame_locks>>
       ELSE \E outcome \in RegistryQueryOutcomes :
               CASE outcome = "raises" ->
                       /\ load_result' =
                             [ended |-> "returned", failure |-> "query"]
                       /\ load_log' = {"info", "error"}
                       /\ UNCHANGED <<CAMERAS, current_frames, frame_locks>>
                 [] outcome = "no_rows" ->
                       /\ load_result' =
                             [ended |-> "returned", failure |-> None]
                       /\ load_log' = {"info", "warning"}
                       /\ RegistryCleared
                 [] outcome = "rows" ->
                       IF RowKeysRead \subseteq RowKeys
                       THEN \* the dicts are rebuilt from the rows
                            /\ load_result' =
                                  [ended |-> "returned", failure |-> None]
                            /\ load_log' = {"info", "debug", "success"}
                            /\ CAMERAS' = CamIds
                            /\ current_frames' = [c \in CamIds |-> None]
                            /\ frame_locks' = [c \in CamIds |-> AsyncioLock]
                       ELSE \* line 295: cam["ip_address"] raises KeyError
                            \* for the first row, after the dicts were cleared
                            /\ load_result' =
                                  [ended |-> "returned", failure |-> "rows"]
                            /\ load_log' = {"info", "debug", "error"}
                            /\ RegistryCleared
    /\ UNCHANGED <<cap_pc, working_url, cap_open, consecutive_failures,
                   last_put, put_result, con_pc, con_cam, con_out, con_frame,
                   captureAux>>
    /\ UNCHANGED <<reportVars, last_attempt, names_bound, probeVars, bulkVars,
                   messageVars>>
    /\ UNCHANGED <<nightlyVars, batcherVars>>

\* cameras.py as written, or with the names its loader uses bound
InitRegistry ==
    /\ InitWith([c \in CamIds |-> ThreadingLock])
    /\ names_bound \in BOOLEAN

(***************************************************************************)
(* capture_camera_frames, one task per camera.                             *)
(***************************************************************************)
\* a URL that opens is taken, whether or not a frame can be read from it
FirstWorkingUrl_OpenedSuffices(urls, outcome) ==
    LET ok == {i \in 1 .. Len(urls) : outcome[i] \in {"frame", "noframe"}}
    IN  IF ok = {} THEN None
        ELSE urls[CHOOSE i \in ok : \A j \in ok : i <= j]

\* working_url assigned before the URL is tested
FirstWorkingUrl_AssignedBeforeTest(urls, outcome) ==
    IF urls = <<>> THEN None ELSE urls[1]

\* lines 416-432: probe the URLs in list order; the first that opens and
\* yields a frame becomes working_url, None when there is none
FirstWorkingUrl(urls, outcome) ==
    LET ok == {i \in 1 .. Len(urls) : outcome[i] = "frame"}
    IN  IF ok = {} THEN None
        ELSE urls[CHOOSE i \in ok : \A j \in ok : i <= j]

\* the threshold reached instead of exceeded: consecutive_failures >= 60
StreamLost_AtThreshold(failures) == failures >= MAX_CONSECUTIVE_FAILURES

\* line 458: consecutive_failures > max_consecutive_failures
StreamLost(failures) == failures > MAX_CONSECUTIVE_FAILURES

\* the counter kept across a successful read
FailuresAfterRead_NoReset(failures, success) ==
    IF success THEN failures ELSE failures + 1

\* lines 457 and 466: consecutive_failures after one read of the inner loop
FailuresAfterRead(failures, success) ==
    IF success THEN 0 ELSE failures + 1

\* line 478: time.time() as a capture task reads it
CaptureTime == StartTime + time_time

\* the interval ignored: current_time - last_detection_time >= 0
DispatchDue_NoInterval(current_time, last) == current_time - last >= 0

\* line 479: current_time - last_detection_time >= DETECTION_INTERVAL
DispatchDue(current_time, last) == current_time - last >= DETECTION_INTERVAL

\* only the first handler (except ValueError) kept: the other exceptions
\* leave the function
GetDetectionsReturn_ValueErrorOnly(outcome) ==
    IF outcome \in {"encode_failed", "bad_json"} THEN None
    ELSE IF outcome \in {"network_error", "timeout", "http_error"} THEN "raised"
    ELSE outcome

\* lines 373-399, get_detections_from_service: None when the frame cannot be
\* encoded (378-380), when response.json() raises a ValueError (394-396) and
\* when the post or raise_for_status raises (397-399); else the decoded body
GetDetectionsReturn(outcome) ==
    IF outcome \in {"encode_failed", "bad_json"} THEN None
    ELSE IF outcome \in {"network_error", "timeout", "http_error"} THEN None
    ELSE outcome

\* the event loop runs one task at a time: a task resumes only while no
\* synchronous call of another task holds the loop's thread
EventLoopFree == loop_blocked_by = 0

\* the camera's cache entry reset when its capture is released
FramesAfterRelease_EntryReset(frames, cam) ==
    [c \in DOMAIN frames |-> IF c = cam THEN None ELSE frames[c]]

\* lines 487-489: current_frames after the inner loop has ended: the capture
\* is released and the task sleeps, the dict is not touched
FramesAfterRelease(frames, cam) == frames

\* lines 453 and 487-489: the inner loop finds stream_active False, the
\* capture is released and the task sleeps 5 s before the outer test
StopInReading(cam) ==
    /\ cap_open' = [cap_open EXCEPT ![cam] = FALSE]
    /\ current_frames' = FramesAfterRelease(current_frames, cam)
    /\ cap_pc' = [cap_pc EXCEPT ![cam] = "Reconnecting"]
    /\ after_shutdown' = [after_shutdown EXCEPT ![cam] = FALSE]
    /\ UNCHANGED consecutive_failures

\* lines 416-432: the number of URLs the for loop tests: it breaks at the
\* first URL that yields a frame (line 425) and goes on after any other
\* outcome, an exception included (line 431)
ProbeCount(urls, outcome) ==
    LET ok == {i \in 1 .. Len(urls) : outcome[i] = "frame"}
    IN  IF ok = {} THEN Len(urls)
        ELSE CHOOSE i \in ok : \A j \in ok : i <= j

\* the tests the loop makes, in the order it makes them
ProbeLog(urls, outcome) ==
    [i \in 1 .. ProbeCount(urls, outcome) |->
        [url |-> urls[i], outcome |-> outcome[i]]]

\* where a URL test raises: in cv2.VideoCapture(url) or isOpened() (lines
\* 418-419), or in cap_test.read() (line 420) of a capture that has opened
ExceptionPoints == {"open", "read"}

\* lines 416-432: whether cap_test is left opened and not released when the
\* for loop is over. release() is called at lines 424 and 430 only; line 431
\* catches an exception and goes on without it. cap_test names the capture of
\* the latest test whose constructor returned (before, when none did); the
\* captures before it were dropped when the name was bound again
ProbeLeftOpen(urls, outcome, raised_in, before) ==
    LET n == ProbeCount(urls, outcome)
        built == {i \in 1 .. n :
                     ~(outcome[i] = "exception" /\ raised_in[i] = "open")}
    IN  IF built = {} THEN before
        ELSE LET last == CHOOSE i \in built : \A j \in built : j <= i
             IN  outcome[last] = "exception" /\ raised_in[last] = "read"

\* lines 415-439, stage 1: no URL is remembered, so the URLs are probed.
\* The loop of lines 416-432 awaits nothing: the whole stage is one step of
\* the task. With logged, the tests made are kept in probe_log and the state
\* of cap_test in probe_open
LocateWith(cam, logged) ==
    /\ cap_pc[cam] = "Locating"
    /\ EventLoopFree
    /\ after_shutdown' = [after_shutdown EXCEPT ![cam] = ~main_stream_active]
    /\ \E outcome \in [1 .. Len(RtspUrls) -> ProbeOutcomes] :
          LET url == FirstWorkingUrl(RtspUrls, outcome)
          IN  /\ IF url = None
                 THEN \* no working URL: sleep 30 s and retry
                      /\ cap_pc' = [cap_pc EXCEPT ![cam] = "Backoff"]
                      /\ UNCHANGED working_url
                 ELSE /\ working_url' = [working_url EXCEPT ![cam] = url]
                      /\ cap_pc' = [cap_pc EXCEPT ![cam] = "Connected"]
              /\ probe_log' =
                    IF logged
                    THEN [probe_log EXCEPT ![cam] = ProbeLog(RtspUrls, outcome)]
                    ELSE probe_log
              /\ \E raised_in \in [1 .. Len(RtspUrls) -> ExceptionPoints] :
                    probe_open' =
                       IF logged
                       THEN [probe_open EXCEPT
                               ![cam] = ProbeLeftOpen(RtspUrls, outcome,
                                                      raised_in, @)]
                       ELSE probe_open
    /\ UNCHANGED <<CAMERAS, current_frames, frame_locks, cap_open,
                   consecutive_failures, last_put, put_result,
                   con_pc, con_cam, con_out, con_frame>>
    /\ UNCHANGED <<stopVars, loop_blocked_by, dispatchVars>>
    /\ UNCHANGED <<reportVars, last_attempt, registryVars, bulkVars,
                   messageVars>>
    /\ UNCHANGED <<nightlyVars, batcherVars>>

Locate(cam) == LocateWith(cam, FALSE)

\* stage 1 with its URL tests on record
LocateLogged(cam) == LocateWith(cam, TRUE)

\* lines 442-451, stage 2: open the persistent capture on working_url
OpenStream(cam) ==
    /\ cap_pc[cam] = "Connected"
    /\ EventLoopFree
    /\ after_shutdown' = [after_shutdown EXCEPT ![cam] = ~main_stream_active]
    /\ \E opened \in BOOLEAN :
          IF ~opened
          THEN \* failed to reopen: forget the URL, sleep 10 s
               /\ working_url' = [working_url EXCEPT ![cam] = None]
               /\ cap_pc' = [cap_pc EXCEPT ![cam] = "Backoff"]
               /\ UNCHANGED <<cap_open, consecutive_failures>>
          ELSE /\ cap_open' = [cap_open EXCEPT ![cam] = TRUE]
               /\ consecutive_failures' =
                     [consecutive_failures EXCEPT ![cam] = 0]
               /\ cap_pc' = [cap_pc EXCEPT ![cam] = "Reading"]
               /\ UNCHANGED working_url
    /\ UNCHANGED <<CAMERAS, current_frames, frame_locks, last_put, put_result,
                   con_pc, con_cam, con_out, con_frame>>
    /\ UNCHANGED <<stopVars, loop_blocked_by, dispatchVars>>
    /\ UNCHANGED <<nightlyVars, batcherVars, extraVars>>

\* lines 438, 446, 489 and 413-415: a backoff or reconnect sleep ends; the
\* outer loop tests stream_active and skips stage 1 while a URL is remembered
BackoffDone(cam) ==
    /\ cap_pc[cam] \in {"Backoff", "Reconnecting"}
    /\ EventLoopFree
    /\ cap_pc' = [cap_pc EXCEPT
                    ![cam] = IF ~stream_active THEN "Stopped"
                             ELSE IF working_url[cam] = None THEN "Locating"
                             ELSE "Connected"]
    /\ UNCHANGED <<CAMERAS, current_frames, frame_locks, working_url, cap_open,
                   consecutive_failures, last_put, put_result,
                   con_pc, con_cam, con_out, con_frame>>
    /\ UNCHANGED <<stopVars, after_shutdown, loop_blocked_by, dispatchVars>>
    /\ UNCHANGED <<nightlyVars, batcherVars, extraVars>>

\* lines 453-464 and 487-489: a failed read
ReadFails(cam) ==
    /\ cap_pc[cam] = "Reading"
    /\ EventLoopFree
    /\ IF ~stream_active
       THEN StopInReading(cam)
       ELSE /\ after_shutdown' =
                  [after_shutdown EXCEPT ![cam] = ~main_stream_active]
            /\ consecutive_failures' =
                  [consecutive_failures EXCEPT
                      ![cam] = FailuresAfterRead(@, FALSE)]
            /\ IF StreamLost(FailuresAfterRead(consecutive_failures[cam],
                                               FALSE))
               THEN \* break: release the capture, sleep 5 s, reconnect
                    /\ cap_open' = [cap_open EXCEPT ![cam] = FALSE]
                    /\ cap_pc' = [cap_pc EXCEPT ![cam] = "Reconnecting"]
                    /\ current_frames' =
                          FramesAfterRelease(current_frames, cam)
               ELSE UNCHANGED <<cap_open, cap_pc, current_frames>>
    /\ UNCHANGED <<CAMERAS, frame_locks, working_url,
                   last_put, put_result, con_pc, con_cam, con_out, con_frame>>
    /\ UNCHANGED <<stopVars, loop_blocked_by, dispatchVars>>
    /\ UNCHANGED <<nightlyVars, batcherVars, extraVars>>

\* lines 453-485: a successful read, the put under the camera's lock, and
\* the dispatch when the interval has passed: the task waits in line 482 for
\* get_detections_from_service. An exception of the put ends the task in
\* logger.catch (line 402), the capture not released
ReadSucceeds(cam) ==
    /\ cap_pc[cam] = "Reading"
    /\ EventLoopFree
    /\ IF ~stream_active
       THEN /\ StopInReading(cam)
            /\ UNCHANGED <<last_put, put_result, dispatchVars>>
       ELSE /\ after_shutdown' =
                  [after_shutdown EXCEPT ![cam] = ~main_stream_active]
            /\ consecutive_failures' =
                  [consecutive_failures EXCEPT
                      ![cam] = FailuresAfterRead(@, TRUE)]
            /\ \E frame \in FrameVals :
                  LET res == CachePutOutcome(frame_locks, cam)
                  IN  /\ last_put' = [last_put EXCEPT ![cam] = frame]
                      /\ put_result' = [put_result EXCEPT ![cam] = res]
                      /\ current_frames' =
                            CachePutFrames(frame_locks, current_frames, cam,
                                           frame)
                      /\ IF res # "stored"
                         THEN /\ cap_pc' = [cap_pc EXCEPT ![cam] = "Crashed"]
                              /\ UNCHANGED dispatchVars
                         ELSE IF DispatchDue(CaptureTime,
                                             last_detection_time[cam])
                         THEN \* lines 480-482
                              /\ last_detection_time' =
                                    [last_detection_time EXCEPT
                                        ![cam] = CaptureTime]
                              /\ cap_pc' = [cap_pc EXCEPT
                                              ![cam] = "AwaitingInference"]
                              /\ UNCHANGED detection_result
                         ELSE \* line 485: sleep, then the next read
                              /\ cap_pc' = [cap_pc EXCEPT ![cam] = "Reading"]
                              /\ UNCHANGED dispatchVars
            /\ UNCHANGED cap_open
    /\ UNCHANGED <<CAMERAS, frame_locks, working_url,
                   con_pc, con_cam, con_out, con_frame>>
    /\ UNCHANGED <<stopVars, loop_blocked_by>>
    /\ UNCHANGED <<nightlyVars, batcherVars, extraVars>>

\* lines 482-485: get_detections_from_service returns to the waiting task,
\* which logs the result and sleeps before the next read
InferenceReturns(cam) ==
    /\ cap_pc[cam] = "AwaitingInference"
    /\ EventLoopFree
    /\ \E outcome \in InferenceOutcomes :
          LET ret == GetDetectionsReturn(outcome)
          IN  IF ret = "raised"
              THEN \* an exception out of the call ends the task
                   /\ cap_pc' = [cap_pc EXCEPT ![cam] = "Crashed"]
                   /\ UNCHANGED detection_result
              ELSE /\ detection_result' =
                         [detection_result EXCEPT ![cam] = ret]
                   /\ cap_pc' = [cap_pc EXCEPT ![cam] = "Reading"]
    /\ UNCHANGED last_detection_time
    /\ UNCHANGED <<CAMERAS, current_frames, frame_locks, working_url, cap_open,
                   consecutive_failures, last_put, put_result,
                   con_pc, con_cam, con_out, con_frame>>
    /\ UNCHANGED <<stopVars, after_shutdown, loop_blocked_by>>
    /\ UNCHANGED <<nightlyVars, batcherVars, extraVars>>

\* a second of time.time() passes for the capture tasks
CaptureTick ==
    /\ time_time < MaxCaptureTime
    /\ time_time' = time_time + 1
    /\ UNCHANGED <<detection_queue, put_waiters, produced, dequeued, batch,
                   last_batch_time, dp_pc, get_deadline, batch_first_time,
                   flush_calls, inserted>>
    /\ UNCHANGED <<nightlyVars, cacheVars, extraVars>>

\* main_copy.py lines 68-72, the shutdown half of lifespan: it assigns the
\* stream_active of its own module
LifespanShutdown ==
    /\ main_stream_active
    /\ main_stream_active' = FALSE
    /\ UNCHANGED stream_active
    /\ UNCHANGED <<CAMERAS, current_frames, frame_locks, cap_pc, working_url,
                   cap_open, consecutive_failures, last_put, put_result,
                   con_pc, con_cam, con_out, con_frame>>
    /\ UNCHANGED <<after_shutdown, loop_blocked_by, dispatchVars>>
    /\ UNCHANGED <<nightlyVars, batcherVars, extraVars>>

\* lines 418-420, 442 and 454: cv2.VideoCapture(url) and cap.read() are
\* synchronous calls made on the event loop's thread; one of them is slow
SlowCallBegins(cam) ==
    /\ cap_pc[cam] \in {"Locating", "Connected", "Reading"}
    /\ EventLoopFree
    /\ loop_blocked_by' = cam
    /\ UNCHANGED <<CAMERAS, current_frames, frame_locks, cap_pc, working_url,
                   cap_open, consecutive_failures, last_put, put_result,
                   con_pc, con_cam, con_out, con_frame>>
    /\ UNCHANGED <<stopVars, after_shutdown, dispatchVars>>
    /\ UNCHANGED <<nightlyVars, batcherVars, extraVars>>

\* the slow call returns and gives the thread back
SlowCallReturns(cam) ==
    /\ loop_blocked_by = cam
    /\ loop_blocked_by' = 0
    /\ UNCHANGED <<CAMERAS, current_frames, frame_locks, cap_pc, working_url,
                   cap_open, consecutive_failures, last_put, put_result,
                   con_pc, con_cam, con_out, con_frame>>
    /\ UNCHANGED <<stopVars, after_shutdown, dispatchVars>>
    /\ UNCHANGED <<nightlyVars, batcherVars, extraVars>>

(***************************************************************************)
(* The stream consumer: video_feed and the generator generate_frames.      *)
(***************************************************************************)
\* lines 677-687: GET /video/{cam_id}
VideoFeed(k, cam_id) ==
    /\ con_pc[k] = "idle"
    /\ con_cam' = [con_cam EXCEPT ![k] = cam_id]
    /\ IF cam_id \notin CAMERAS
       THEN /\ con_pc' = [con_pc EXCEPT ![k] = "ended"]
            /\ con_out' = [con_out EXCEPT ![k] = "404"]
       ELSE /\ con_pc' = [con_pc EXCEPT ![k] = "streaming"]
            /\ UNCHANGED con_out
    /\ UNCHANGED <<CAMERAS, current_frames, frame_locks, cap_pc, working_url,
                   cap_open, consecutive_failures, last_put, put_result,
                   con_frame>>
    /\ UNCHANGED captureAux
    /\ UNCHANGED <<nightlyVars, batcherVars, extraVars>>

\* line 502: generate_frames(cam_id) called by any other caller, which
\* passes cam_id as it is
GenerateFramesCall(k, cam_id) ==
    /\ con_pc[k] = "idle"
    /\ con_cam' = [con_cam EXCEPT ![k] = cam_id]
    /\ con_pc' = [con_pc EXCEPT ![k] = "streaming"]
    /\ UNCHANGED <<CAMERAS, current_frames, frame_locks, cap_pc, working_url,
                   cap_open, consecutive_failures, last_put, put_result,
                   con_out, con_frame>>
    /\ UNCHANGED captureAux
    /\ UNCHANGED <<nightlyVars, batcherVars, extraVars>>

\* lines 504-529: one round of the generator: the get, then the frame or the
\* placeholder; an exception ends the generator
GenerateFramesNext(k) ==
    /\ con_pc[k] = "streaming"
    /\ LET got == CacheGet(frame_locks, current_frames, con_cam[k])
       IN  /\ con_out' = [con_out EXCEPT ![k] = got.out]
           /\ con_frame' = [con_frame EXCEPT ![k] = got.frame]
           /\ con_pc' = [con_pc EXCEPT
                           ![k] = IF got.out \in {"frame", "placeholder"}
                                  THEN "streaming" ELSE "ended"]
    /\ UNCHANGED <<CAMERAS, current_frames, frame_locks, cap_pc, working_url,
                   cap_open, consecutive_failures, last_put, put_result,
                   con_cam>>
    /\ UNCHANGED captureAux
    /\ UNCHANGED <<nightlyVars, batcherVars, extraVars>>

\* the client disconnects: the generator is closed
ConsumerLeaves(k) ==
    /\ con_pc[k] \in {"streaming", "ended"}
    /\ con_pc' = [con_pc EXCEPT ![k] = "idle"]
    /\ con_cam' = [con_cam EXCEPT ![k] = 0]
    /\ con_out' = [con_out EXCEPT ![k] = "none"]
    /\ con_frame' = [con_frame EXCEPT ![k] = None]
    /\ UNCHANGED <<CAMERAS, current_frames, frame_locks, cap_pc, working_url,
                   cap_open, consecutive_failures, last_put, put_result>>
    /\ UNCHANGED captureAux
    /\ UNCHANGED <<nightlyVars, batcherVars, extraVars>>

\* the capture tasks alone
NextCapture ==
    \/ \E cam \in CamIds : Locate(cam)
    \/ \E cam \in CamIds : OpenStream(cam)
    \/ \E cam \in CamIds : BackoffDone(cam)
    \/ \E cam \in CamIds : ReadFails(cam)
    \/ \E cam \in CamIds : ReadSucceeds(cam)

SpecCapture == Init /\ [][NextCapture]_vars

\* the capture tasks up to their first frame, the URL tests of stage 1 on
\* record; a stage 1 is entered at the start and after each failed open
NextLocator ==
    \/ \E cam \in CamIds : LocateLogged(cam)
    \/ \E cam \in CamIds : OpenStream(cam)
    \/ \E cam \in CamIds : BackoffDone(cam)
    \/ \E cam \in CamIds : ReadSucceeds(cam)

SpecLocator == Init /\ [][NextLocator]_vars

\* the capture tasks and the shutdown handler of the application
NextShutdown ==
    \/ NextCapture
    \/ LifespanShutdown

SpecShutdown == Init /\ [][NextShutdown]_vars

\* the capture tasks on one event loop, with slow synchronous calls
NextIsolation ==
    \/ NextCapture
    \/ \E cam \in CamIds : SlowCallBegins(cam)
    \/ \E cam \in CamIds : SlowCallReturns(cam)

SpecIsolation == Init /\ [][NextIsolation]_vars

\* the reading stage with its dispatch to the inference service and the
\* clock; no read fails
NextDispatch ==
    \/ \E cam \in CamIds : Locate(cam)
    \/ \E cam \in CamIds : OpenStream(cam)
    \/ \E cam \in CamIds : BackoffDone(cam)
    \/ \E cam \in CamIds : ReadSucceeds(cam)
    \/ \E cam \in CamIds : InferenceReturns(cam)
    \/ CaptureTick

SpecDispatch == InitLoaded /\ [][NextDispatch]_vars

\* the capture tasks with the dispatch, stream losses and the clock
NextThrottle ==
    \/ NextCapture
    \/ \E cam \in CamIds : InferenceReturns(cam)
    \/ CaptureTick

SpecThrottle == InitLoaded /\ [][NextThrottle]_vars

\* the task of one camera, followed on its own: its counter is a local of
\* the task (line 450)
FollowedCams == {CHOOSE c \in CamIds : TRUE}

\* one task through its reading stage, with failed and successful reads in
\* any order and the inference call returning, the clock standing still
NextReading ==
    \/ \E cam \in FollowedCams : Locate(cam)
    \/ \E cam \in FollowedCams : OpenStream(cam)
    \/ \E cam \in FollowedCams : BackoffDone(cam)
    \/ \E cam \in FollowedCams : ReadFails(cam)
    \/ \E cam \in FollowedCams : ReadSucceeds(cam)
    \/ \E cam \in FollowedCams : InferenceReturns(cam)

SpecReading == InitLoaded /\ [][NextReading]_vars

\* the writers and the readers of the frame cache; a failed read touches
\* neither the cache nor a lock and is left to SpecCapture
NextCache ==
    \/ \E cam \in CamIds : Locate(cam)
    \/ \E cam \in CamIds : OpenStream(cam)
    \/ \E cam \in CamIds : BackoffDone(cam)
    \/ \E cam \in CamIds : ReadSucceeds(cam)
    \/ \E k \in Consumers, cam_id \in CamInputs : VideoFeed(k, cam_id)
    \/ \E k \in Consumers, cam_id \in CamInputs : GenerateFramesCall(k, cam_id)
    \/ \E k \in Consumers : GenerateFramesNext(k)
    \/ \E k \in Consumers : ConsumerLeaves(k)

SpecCache == Init /\ [][NextCache]_vars

\* the loader and the stream consumers that read the registry's dicts
NextRegistry ==
    \/ LoadCameraConfigurations
    \/ \E k \in Consumers, cam_id \in CamInputs : VideoFeed(k, cam_id)
    \/ \E k \in Consumers, cam_id \in CamInputs : GenerateFramesCall(k, cam_id)
    \/ \E k \in Consumers : GenerateFramesNext(k)
    \/ \E k \in Consumers : ConsumerLeaves(k)

SpecRegistry == InitRegistry /\ [][NextRegistry]_vars

(***************************************************************************)
(* The detection queue, its producer and detection_processor.              *)
(***************************************************************************)
\* lines 351-363, send_detections_to_database: line 354 formats the name
\* detctions, which is not defined, so the call raises NameError before
\* bulk_insert_query is reached; "except ValueError" does not catch it
SendDetectionsRaises(detections) == "NameError"

\* the rows send_detections_to_database hands to bulk_insert_query
SendDetectionsRows(detections) ==
    IF SendDetectionsRaises(detections) = None THEN detections ELSE <<>>

\* line 339: the batch is full, or it is non-empty and the time since
\* last_batch_time exceeds the age threshold
FlushDue(b, current_time, lbt) ==
    \/ Len(b) >= SIZE_THRESHOLD
    \/ (b # <<>> /\ (current_time - lbt) > AGE_THRESHOLD)

\* the loop never ends: while True
LoopTest_Forever(flag) == TRUE

\* line 327: while stream_active
LoopTest(flag) == flag

\* lines 327-331: after a pass the loop test; the task waits in the next
\* wait_for, or the function returns
NextIteration == IF LoopTest(stream_active) THEN "Waiting" ELSE "Exited"

\* lines 337-348: the check after a get or a timeout, with batch b; the pass
\* ends with the loop test of line 327
FlushCheck(b, first_time) ==
    IF FlushDue(b, time_time, last_batch_time) /\ b # <<>>
    THEN /\ flush_calls' = Append(flush_calls,
                [size |-> Len(b), at |-> time_time, first |-> first_time,
                 events |-> b])
         /\ inserted' = inserted \o SendDetectionsRows(b)
         /\ IF SendDetectionsRaises(b) = None
            THEN \* batch.clear(); last_batch_time = current_time
                 /\ batch' = <<>>
                 /\ last_batch_time' = time_time
                 /\ dp_pc' = NextIteration
                 /\ get_deadline' = time_time + GET_TIMEOUT
            ELSE \* the exception is no ValueError: it leaves the loop and
                 \* ends the task, the batch as it was
                 /\ batch' = b
                 /\ dp_pc' = "Dead"
                 /\ UNCHANGED <<last_batch_time, get_deadline>>
    ELSE /\ batch' = b
         /\ dp_pc' = NextIteration
         /\ get_deadline' = time_time + GET_TIMEOUT
         /\ UNCHANGED <<flush_calls, inserted, last_batch_time>>

\* no capacity given to the queue: asyncio.Queue() is never full
QueueFull_Unbounded(queue) == FALSE

\* asyncio.Queue.full() of the queue of line 245: qsize() >= maxsize
QueueFull(queue) == Len(queue) >= QUEUE_MAXSIZE

\* line 698, get_status: detection_queue.qsize()
QueueSize == Len(detection_queue)

\* line 693, get_status: the entries of current_frames that are not None
ActiveCameras(frames) ==
    Cardinality({c \in DOMAIN frames : frames[c] # None})

\* line 696, get_status: len(CAMERAS)
TotalCameras(cameras) == Cardinality(cameras)

\* lines 492-499, handle_detection_result: a truthy result is put on the
\* queue; the put waits while the queue is full. limit bounds the number of
\* results the producers are given
PutDetectionResult(limit) ==
    /\ produced < limit
    /\ \E truthy \in BOOLEAN :
          IF ~truthy
          THEN UNCHANGED <<detection_queue, put_waiters, produced>>
          ELSE /\ produced' = produced + 1
               /\ IF ~QueueFull(detection_queue)
                  THEN /\ detection_queue' = Append(detection_queue, produced + 1)
                       /\ UNCHANGED put_waiters
                  ELSE /\ put_waiters' = Append(put_waiters, produced + 1)
                       /\ UNCHANGED detection_queue
    /\ UNCHANGED <<time_time, dequeued, batch, last_batch_time, dp_pc,
                   get_deadline, batch_first_time, flush_calls, inserted>>
    /\ UNCHANGED <<nightlyVars, cacheVars, extraVars>>

\* the producers of the batching scenarios
HandleDetectionResult == PutDetectionResult(MaxEvents)

\* the producers of a burst that outruns the consumer
HandleDetectionBurst == PutDetectionResult(MaxBurst)

\* lines 327-344: the get returns an item; append it (every queued result is
\* truthy, see handle_detection_result), then check the batch
ProcessorGet ==
    /\ dp_pc = "Waiting"
    /\ detection_queue # <<>>
    /\ LET detection == Head(detection_queue)
           rest == Tail(detection_queue)
       IN  /\ IF put_waiters # <<>>
              THEN /\ detection_queue' = Append(rest, Head(put_waiters))
                   /\ put_waiters' = Tail(put_waiters)
              ELSE /\ detection_queue' = rest
                   /\ UNCHANGED put_waiters
           /\ dequeued' = Append(dequeued, detection)
           /\ batch_first_time' = IF batch = <<>> THEN time_time
                                  ELSE batch_first_time
           /\ FlushCheck(Append(batch, detection),
                         IF batch = <<>> THEN time_time ELSE batch_first_time)
    /\ UNCHANGED <<time_time, produced>>
    /\ UNCHANGED <<nightlyVars, cacheVars, extraVars>>

\* lines 334-344: the get times out; check the batch
ProcessorTimeout ==
    /\ dp_pc = "Waiting"
    /\ detection_queue = <<>>
    /\ time_time >= get_deadline
    /\ FlushCheck(batch, batch_first_time)
    /\ UNCHANGED <<time_time, detection_queue, put_waiters, produced,
                   dequeued, batch_first_time>>
    /\ UNCHANGED <<nightlyVars, cacheVars, extraVars>>

\* a second passes while detection_processor has nothing to do but wait
Tick ==
    /\ time_time < MaxTime
    /\ dp_pc = "Waiting" => (detection_queue = <<>> /\ time_time < get_deadline)
    /\ time_time' = time_time + 1
    /\ UNCHANGED <<detection_queue, put_waiters, produced, dequeued, batch,
                   last_batch_time, dp_pc, get_deadline, batch_first_time,
                   flush_calls, inserted>>
    /\ UNCHANGED <<nightlyVars, cacheVars, extraVars>>

\* the stop signal: the global stream_active of cameras.py is set to False.
\* No code in src makes this assignment (the shutdown handler of main_copy.py
\* assigns its own global); the step stands for an embedding application
\* that does
StopSignalLowered ==
    /\ stream_active
    /\ stream_active' = FALSE
    /\ UNCHANGED main_stream_active
    /\ UNCHANGED <<CAMERAS, current_frames, frame_locks, cap_pc, working_url,
                   cap_open, consecutive_failures, last_put, put_result,
                   con_pc, con_cam, con_out, con_frame>>
    /\ UNCHANGED <<after_shutdown, loop_blocked_by, dispatchVars>>
    /\ UNCHANGED <<nightlyVars, batcherVars, extraVars>>

NextBatcher ==
    \/ HandleDetectionResult
    \/ ProcessorGet
    \/ ProcessorTimeout
    \/ Tick

SpecBatcher == Init /\ [][NextBatcher]_vars

\* the batcher with the stop signal given at any moment
NextStop ==
    \/ NextBatcher
    \/ StopSignalLowered

SpecStop == Init /\ [][NextStop]_vars

\* a burst of results with the clock standing still: the producers against
\* the consumer, no timeout in between
NextOverflow ==
    \/ HandleDetectionBurst
    \/ ProcessorGet

SpecOverflow == Init /\ [][NextOverflow]_vars

(***************************************************************************)
(* bulk_insert_query of utils/db/base.py.                                  *)
(***************************************************************************)
\* the rows a caller can pass
RowVals == {"r1", "r2"}

\* lists of rows up to a length
RowLists(n) == UNION {[1 .. k -> RowVals] : k \in 0 .. n}

\* the values of the parameter query_values: one row as a dict, or a list
BulkInputs ==
    {[kind |-> "dict", value |-> r] : r \in RowVals}
    \cup {[kind |-> "list", value |-> l] : l \in RowLists(MaxRows)}

\* lines 135-136: a dict becomes a list of one row
AsRowList(values) ==
    IF values.kind = "dict" THEN <<values.value>> ELSE values.value

\* the rows of a list of chunks, in order
RECURSIVE RowsOf(_)
RowsOf(chunks) ==
    IF chunks = <<>> THEN <<>> ELSE Head(chunks) \o RowsOf(Tail(chunks))

\* line 140: query_values[i : i + batch_size], i counted from 0
SliceFrom(rows, i, size) ==
    SubSeq(rows, i + 1, IF i + size < Len(rows) THEN i + size ELSE Len(rows))

\* line 141: insert is numpy.insert (line 2, from numpy import insert), a
\* function of arr, obj and values; a call with fewer than three arguments
\* raises TypeError
InsertRaises(nargs) == IF nargs < 3 THEN "TypeError" ELSE None

\* the exception logged and dropped: the call returns None
BulkInsertHandler_Swallows(exc) == None

\* lines 145-147: except Exception logs the error and raises it again
BulkInsertHandler(exc) == exc

\* lines 127-136: the call opens a connection and normalises its argument
BulkInsertCall ==
    /\ bi_pc = "Idle"
    /\ \E values \in BulkInputs, size \in 1 .. MaxBatchSize :
          /\ query_values' = values
          /\ batch_size' = size
    /\ bi_pc' = "Looping"
    /\ bi_executed' = <<>>
    /\ bi_stored' = <<>>
    /\ bi_raised' = None
    /\ UNCHANGED <<reportVars, last_attempt, registryVars, probeVars,
                   messageVars>>
    /\ UNCHANGED <<nightlyVars, cacheVars, batcherVars>>

\* lines 139-142 and 145-147: one pass of the loop over range(0, len, size):
\* the statement is built from insert(db_table_name) with its one argument
\* and executed; an exception is logged and raised again, which leaves the
\* with block without a commit
BulkInsertChunk ==
    /\ bi_pc = "Looping"
    /\ LET rows == AsRowList(query_values)
           i == Len(RowsOf(bi_executed))
       IN  /\ i < Len(rows)
           /\ IF InsertRaises(1) # None
              THEN /\ bi_raised' = BulkInsertHandler(InsertRaises(1))
                   /\ bi_pc' = IF BulkInsertHandler(InsertRaises(1)) # None
                              THEN "Raised" ELSE "Done"
                   /\ UNCHANGED bi_executed
              ELSE /\ bi_executed' =
                         Append(bi_executed, SliceFrom(rows, i, batch_size))
                   /\ UNCHANGED <<bi_raised, bi_pc>>
    /\ UNCHANGED <<query_values, batch_size, bi_stored>>
    /\ UNCHANGED <<reportVars, last_attempt, registryVars, probeVars,
                   messageVars>>
    /\ UNCHANGED <<nightlyVars, cacheVars, batcherVars>>

\* line 144: the loop is over, conn.commit() stores what was executed
BulkInsertCommit ==
    /\ bi_pc = "Looping"
    /\ Len(RowsOf(bi_executed)) >= Len(AsRowList(query_values))
    /\ bi_stored' = RowsOf(bi_executed)
    /\ bi_pc' = "Done"
    /\ UNCHANGED <<query_values, batch_size, bi_executed, bi_raised>>
    /\ UNCHANGED <<reportVars, last_attempt, registryVars, probeVars,
                   messageVars>>
    /\ UNCHANGED <<nightlyVars, cacheVars, batcherVars>>

NextBulkInsert == BulkInsertCall \/ BulkInsertChunk \/ BulkInsertCommit

SpecBulkInsert == Init /\ [][NextBulkInsert]_vars

(***************************************************************************)
(* is_message_processed of utils/cache.py.                                 *)
(***************************************************************************)
\* SET key 1 EX 300 NX: the store after the server has executed it
MessageSetNxStore(kv, m, t) ==
    IF KeyExists(kv, m, t) THEN kv
    ELSE [kv EXCEPT ![m] = t + MESSAGE_ID_EXPIRATION_SECONDS]

\* Python's truth test of the values at hand
PyTruthy(x) == x \notin {None, "False", "0"}

\* the reply compared with 0, as _acquire_lock does
IsProcessedReturn_EqualsZero(reply) == PyEqualsZero(reply)

\* lines 13-18: if was_set: return True; else return False
IsProcessedReturn(reply) == PyTruthy(reply)

\* lines 9-12: a call is made and its SET NX sent
MessageCall(c, m) ==
    /\ mp_pc[c] = "Idle"
    /\ mp_pc' = [mp_pc EXCEPT ![c] = "SetSent"]
    /\ mp_id' = [mp_id EXCEPT ![c] = m]
    /\ mp_was_set' = [mp_was_set EXCEPT ![c] = None]
    /\ mp_result' = [mp_result EXCEPT ![c] = None]
    /\ mp_absent' = [mp_absent EXCEPT ![c] = FALSE]
    /\ mp_at' = [mp_at EXCEPT ![c] = 0]
    /\ UNCHANGED <<mp_now, mp_store>>
    /\ UNCHANGED <<reportVars, last_attempt, registryVars, probeVars, bulkVars>>
    /\ UNCHANGED <<nightlyVars, cacheVars, batcherVars>>

\* the server executes the caller's SET NX and replies
MessageSetNx(c) ==
    /\ mp_pc[c] = "SetSent"
    /\ mp_absent' = [mp_absent EXCEPT ![c] = ~KeyExists(mp_store, mp_id[c], mp_now)]
    /\ mp_was_set' = [mp_was_set EXCEPT
                         ![c] = SetNxReply(mp_store, mp_id[c], mp_now)]
    /\ mp_store' = MessageSetNxStore(mp_store, mp_id[c], mp_now)
    /\ mp_at' = [mp_at EXCEPT ![c] = mp_now]
    /\ mp_pc' = [mp_pc EXCEPT ![c] = "SetReplied"]
    /\ UNCHANGED <<mp_now, mp_id, mp_result>>
    /\ UNCHANGED <<reportVars, last_attempt, registryVars, probeVars, bulkVars>>
    /\ UNCHANGED <<nightlyVars, cacheVars, batcherVars>>

\* lines 13-18: the call returns
MessageReturn(c) ==
    /\ mp_pc[c] = "SetReplied"
    /\ mp_result' = [mp_result EXCEPT
                        ![c] = PyBool(IsProcessedReturn(mp_was_set[c]))]
    /\ mp_pc' = [mp_pc EXCEPT ![c] = "Idle"]
    /\ UNCHANGED <<mp_now, mp_store, mp_id, mp_was_set, mp_absent, mp_at>>
    /\ UNCHANGED <<reportVars, last_attempt, registryVars, probeVars, bulkVars>>
    /\ UNCHANGED <<nightlyVars, cacheVars, batcherVars>>

\* a third of the expiry passes on the clock of the store
MessageClockStep ==
    /\ mp_now < MaxClockSteps * (MESSAGE_ID_EXPIRATION_SECONDS \div 3)
    /\ mp_now' = mp_now + MESSAGE_ID_EXPIRATION_SECONDS \div 3
    /\ UNCHANGED <<mp_store, mp_pc, mp_id, mp_was_set, mp_absent, mp_at,
                   mp_result>>
    /\ UNCHANGED <<reportVars, last_attempt, registryVars, probeVars, bulkVars>>
    /\ UNCHANGED <<nightlyVars, cacheVars, batcherVars>>

NextMessage ==
    \/ \E c \in Callers, m \in MessageIds : MessageCall(c, m)
    \/ \E c \in Callers : MessageSetNx(c)
    \/ \E c \in Callers : MessageReturn(c)
    \/ MessageClockStep

SpecMessage == Init /\ [][NextMessage]_vars

(***************************************************************************)
(* Claims about the nightly runner and the daily lock, under SpecNightly.  *)
(***************************************************************************)
\* no runner is between sending SET NX and acting on _acquire_lock's result
NoCallInFlight == \A q \in Runners : rpc[q] \notin {"SetSent", "SetReplied"}

\* C1: for every report date for which some runner was alive at the trigger
\* and has finished its lock attempt, the nightly job has executed exactly
\* once across all runners and restarts (never twice, never zero times).
C1_ExactlyOncePerDay ==
    NoCallInFlight =>
        \A r \in Runners : acquired[r] # None => runs[lock_key[r]] = 1

\* C2: in every reachable state, for any date, at most one runner has made
\* the Locking -> Running transition, so the storage query happens at most
\* once and the notification sends at most once per recipient entry.
C2_AtMostOnePerDate ==
    \A d \in Dates :
        /\ runs[d] <= 1
        /\ queries[d] <= 1
        /\ sends[d] <= Len(RecipientSetting)

\* C2 witness: two different runners have both finished a lock attempt for
\* the same date.
C2_Witness ==
    /\ NoCallInFlight
    /\ \E r1, r2 \in Runners :
          /\ r1 # r2
          /\ acquired[r1] # None /\ acquired[r2] # None
          /\ lock_key[r1] = lock_key[r2]

\* C3: of two concurrent calls of _acquire_lock with the same key while the
\* key is absent, exactly one returns True and the other returns False.
C3_ExactlyOneAcquires ==
    \A r1, r2 \in Runners :
        ( /\ r1 # r2
          /\ NoCallInFlight
          /\ overlapped[r1] /\ overlapped[r2]
          /\ lock_key[r1] = lock_key[r2]
          /\ acquired[r1] # None /\ acquired[r2] # None
          /\ (key_absent[r1] \/ key_absent[r2]) )
        => ( (acquired[r1] = "True") # (acquired[r2] = "True") )

\* C4: an acquire attempt for a date succeeds if and only if no unexpired key
\* for that date existed when the store executed it: it is refused while the
\* key of its date is unexpired and succeeds otherwise, whatever the keys of
\* the other dates.
C4_SucceedsIffKeyAbsent ==
    \A r \in Runners :
        (acquired[r] # None) => ((acquired[r] = "True") <=> key_absent[r])

\* C27: on waking, a runner whose create-if-absent call created the lock key
\* goes from Locking to Running, and a runner whose call found the key
\* present goes from Locking to Skipped; it never skips after creating the
\* key and never runs without having created it.
C27_RunsIffCreated ==
    [][\A r \in Runners :
          (rpc[r] = "SetReplied" /\ rpc'[r] # "SetReplied") =>
             LET d == lock_key[r]
             IN  IF key_absent[r]
                 THEN runs'[d] = runs[d] + 1
                 ELSE runs'[d] = runs[d] /\ rpc'[r] = "Sleep60"]_vars

C29_SleepsToNextTrigger ==
    [][\A r \in Runners :
          (rpc[r] = "Start" /\ rpc'[r] = "Sleeping") =>
             LET target == wake_at'[r]
             IN  /\ target % DaySeconds = TriggerSecond
                 /\ target >= now
                 /\ target - DaySeconds < now
                 /\ target - now \in 0 .. DaySeconds]_vars

\* C29 witness: a runner sleeps towards tomorrow's trigger, computed a
\* minute after today's had passed.
C29_Witness ==
    \E r \in Runners :
        /\ rpc[r] = "Sleeping"
        /\ now % DaySeconds = TriggerSecond + SKIP_SLEEP
        /\ wake_at[r] - now = DaySeconds - SKIP_SLEEP

\* the trigger occurrence a time belongs to: the number of the day of the
\* latest trigger at or before it
TriggerDay(t) == (t - TriggerSecond) \div DaySeconds

\* C30: after a skip, and after a run that completes or fails, the runner
\* goes back to Sleeping with the next day's trigger as its target: one
\* runner instance attempts the lock at most once per trigger occurrence and
\* not again before the next day's trigger time.
C30_OneAttemptPerTrigger ==
    [][\A r \in Runners :
          last_attempt[r] # NoAttempt =>
             LET next == (TriggerDay(last_attempt[r]) + 1) * DaySeconds
                            + TriggerSecond
             IN  /\ (rpc[r] = "Start" /\ rpc'[r] = "Sleeping")
                       => wake_at'[r] = next
                 /\ (rpc[r] = "Sleeping" /\ rpc'[r] = "SetSent")
                       => now >= next]_vars

\* C30 witness: a runner whose attempt was skipped sleeps towards the next
\* day's trigger.
C30_Witness ==
    \E r \in Runners :
        /\ rpc[r] = "Sleeping"
        /\ last_attempt[r] # NoAttempt
        /\ acquired[r] = "False"
        /\ wake_at[r] = (TriggerDay(last_attempt[r]) + 1) * DaySeconds
                           + TriggerSecond

C5_AbsentNeverRaises ==
    \A k \in Consumers :
        ( /\ con_out[k] \notin {"none", "404"}
          /\ last_put[con_cam[k]] = None )
        => con_out[k] = "placeholder"

\* C6: after any sequence of put calls on a camera id, a get on that camera
\* returns exactly the frame of the last put.
C6_LastWriteWins ==
    \A cam \in CamIds :
        last_put[cam] # None =>
            CacheGet(frame_locks, current_frames, cam)
                = [out |-> "frame", frame |-> last_put[cam]]

\* C7: every camera has its own exclusive lock; no lock is left held, and
\* every put of a capture loop and every get of a consumer on a camera of the
\* registry succeeds in acquiring and releasing that camera's lock.
C7_PerCameraLock ==
    /\ \A cam \in DOMAIN frame_locks : ~frame_locks[cam].held
    /\ \A cam \in CamIds : put_result[cam] \in {"none", "stored"}
    /\ \A k \in Consumers :
          con_cam[k] \in CamIds =>
              con_out[k] \in {"none", "frame", "placeholder"}

(***************************************************************************)
(* Claims about the batcher, under SpecBatcher.                            *)
(***************************************************************************)
\* C8: whenever the batch is non-empty, it is flushed (and so emptied) no
\* later than the age threshold of 30 s after its first item arrived, even
\* if no further item arrives.
C8_FlushWithinAge ==
    batch # <<>> => (time_time - batch_first_time) <= AGE_THRESHOLD

\* C9: the batch is flushed as soon as it reaches the size threshold of 10
\* items, before any further item is dequeued: it is never left holding 10
\* items or more, and every flushed batch has between 1 and 10 events.
C9_FlushAtSize ==
    /\ Len(batch) < SIZE_THRESHOLD
    /\ \A i \in DOMAIN flush_calls :
          flush_calls[i].size \in 1 .. SIZE_THRESHOLD

\* C10: a batch with fewer than 10 items is never flushed before 30 s have
\* passed since its first item arrived; while all n events so far arrived
\* within a window shorter than 30 s and all are dequeued, exactly
\* floor(n/10) flushes have occurred, each of exactly 10 events, and
\* n mod 10 events are in the current batch.
C10_OnlySizeFlushesInWindow ==
    /\ \A i \in DOMAIN flush_calls :
          flush_calls[i].size < SIZE_THRESHOLD =>
              (flush_calls[i].at - flush_calls[i].first) >= AGE_THRESHOLD
    /\ ( /\ time_time < AGE_THRESHOLD
         /\ detection_queue = <<>> /\ put_waiters = <<>> )
       => /\ Len(flush_calls) = produced \div SIZE_THRESHOLD
          /\ \A i \in DOMAIN flush_calls : flush_calls[i].size = SIZE_THRESHOLD
          /\ Len(batch) = produced % SIZE_THRESHOLD

\* C11: a producer that pushes an event while the queue holds 100 items does
\* not block: the event is dropped and the producer continues, so no put is
\* ever left waiting for a free slot and no event beyond the capacity is kept.
C11_FullQueueDrops ==
    /\ put_waiters = <<>>
    /\ Len(detection_queue) <= QUEUE_MAXSIZE

\* C12: a failure of the flush never terminates the consumer loop: after any
\* call of send_detections_to_database detection_processor is still in its
\* loop, and the batch it flushed has been discarded.
C12_FlushFailureSurvives ==
    flush_calls # <<>> =>
        /\ dp_pc # "Dead"
        /\ Len(batch) < flush_calls[Len(flush_calls)].size

\* the events of the flushed batches, in the order of the flushes
RECURSIVE FlushedEvents(_)
FlushedEvents(calls) ==
    IF calls = <<>> THEN <<>>
    ELSE calls[1].events \o FlushedEvents(Tail(calls))

\* C13: every dequeued event is in at most one flushed batch, the batch is
\* empty after each flush, and the flushed batches followed by the current
\* batch list the events exactly in the order of their dequeueing.
C13_FlushedOnceInOrder ==
    FlushedEvents(flush_calls) \o batch = dequeued

(***************************************************************************)
(* Claims about the capture tasks.                                         *)
(***************************************************************************)
\* C14 as stated: a task in Reading that records more failed reads in a row
\* than the threshold (the 61st with a threshold of 60) leaves Reading for
\* Reconnecting with its capture released, and after the reconnect delay it
\* goes to Locating, where the URLs are probed, before it opens a capture.
C14_LocatesAfterReconnect ==
    [][\A cam \in CamIds :
          /\ cap_pc'[cam] = "Reading" =>
                 consecutive_failures'[cam] <= MAX_CONSECUTIVE_FAILURES
          /\ cap_pc'[cam] = "Reconnecting" =>
                 /\ ~cap_open'[cam]
                 /\ consecutive_failures'[cam] = MAX_CONSECUTIVE_FAILURES + 1
          /\ (cap_pc[cam] = "Reconnecting" /\ cap_pc'[cam] # "Reconnecting")
                 => cap_pc'[cam] = "Locating"]_vars

\* C14 amended: a task in Reading that records the 61st failed read in a row
\* leaves Reading for Reconnecting with its capture released; after the
\* reconnect delay it reopens the URL it remembers without probing, and it
\* returns to Locating only with no URL remembered, which after a stream
\* loss means that the reopening failed.
C14_ReopensRememberedUrl ==
    [][\A cam \in CamIds :
          /\ cap_pc'[cam] = "Reading" =>
                 consecutive_failures'[cam] <= MAX_CONSECUTIVE_FAILURES
          /\ cap_pc'[cam] = "Reconnecting" =>
                 /\ ~cap_open'[cam]
                 /\ consecutive_failures'[cam] = MAX_CONSECUTIVE_FAILURES + 1
          /\ (cap_pc[cam] = "Reconnecting" /\ cap_pc'[cam] # "Reconnecting")
                 => /\ cap_pc'[cam] = "Connected"
                    /\ working_url'[cam] = working_url[cam]
                    /\ working_url[cam] # None
          /\ cap_pc'[cam] = "Locating" => working_url'[cam] = None
          /\ (cap_pc[cam] = "Connected" /\ cap_pc'[cam] = "Backoff")
                 => working_url'[cam] = None]_vars

\* C14 witness: after a stream loss and the reconnect delay a task is about
\* to reopen its remembered URL, the 61 failures still on its counter.
C14_Witness ==
    \E cam \in CamIds :
        /\ cap_pc[cam] = "Connected"
        /\ consecutive_failures[cam] = MAX_CONSECUTIVE_FAILURES + 1
        /\ working_url[cam] # None

\* C15: once the shutdown handler of the application has set the stop
\* signal, no capture task begins a connection or a read: each observes the
\* signal at its next loop test and goes on to Stopped.
C15_LoopsObserveStop ==
    \A cam \in CamIds : ~after_shutdown[cam]

\* C16: no failure of camera A's task stops or blocks camera B's: while B is
\* in Reading it can take its next read, whatever A's task is doing, a slow
\* connect or read call included.
C16_LoopsIsolated ==
    \A a, b \in CamIds :
        (a # b /\ cap_pc[b] = "Reading" /\ loop_blocked_by = a)
            => ENABLED (ReadFails(b) \/ ReadSucceeds(b))

\* C17: a frame read when the detection interval has passed is handed to the
\* dispatcher, and the task does not wait for the inference result: it is
\* never suspended in the call while the call is outstanding.
C17_DispatchDoesNotWait ==
    \A c \in CamIds :
        /\ last_put[c] # None => last_detection_time[c] # 0
        /\ cap_pc[c] # "AwaitingInference"

\* C18: every inference call that returns a non-empty result leads to a
\* DetectionEvent on the detection queue (waiting in it, waiting for a slot,
\* or dequeued by the batcher).
C18_PositiveResultEnqueued ==
    (\E c \in CamIds : detection_result[c] = "persons")
        => Len(detection_queue) + Len(put_waiters) + Len(dequeued) >= 1

\* C19: two successive dispatches of one camera are at least
\* DETECTION_INTERVAL apart, stream losses in between included, and the
\* dispatch timer of a camera changes only in a dispatch of its own task.
C19_DispatchThrottled ==
    [][\A c \in CamIds :
          /\ (cap_pc[c] = "Reading" /\ cap_pc'[c] = "AwaitingInference")
                 => last_detection_time'[c] - last_detection_time[c]
                       >= DETECTION_INTERVAL
          /\ last_detection_time'[c] # last_detection_time[c]
                 => /\ cap_pc[c] = "Reading"
                    /\ cap_pc'[c] = "AwaitingInference"
                    /\ \A d \in CamIds \ {c} :
                          /\ last_detection_time'[d] = last_detection_time[d]
                          /\ cap_pc'[d] = cap_pc[d]]_vars

\* C19 witness: one camera waits for the result of a dispatch after an
\* earlier dispatch of its own has returned a result, while another camera,
\* which has dispatched too, has lost its stream and is reconnecting.
C19_Witness ==
    \E c, d \in CamIds :
        /\ c # d
        /\ cap_pc[c] = "AwaitingInference"
        /\ detection_result[c] # None
        /\ cap_pc[d] = "Reconnecting"
        /\ last_detection_time[d] # 0

\* C20: every failure of the inference call makes
\* get_detections_from_service return None; after such a return nothing has
\* been enqueued and the task is in Reading again, not waiting for a second
\* call.
C20_FailedInferenceIsDropped ==
    /\ \A o \in InferenceFailures : GetDetectionsReturn(o) = None
    /\ \A c \in CamIds :
          ( /\ last_detection_time[c] # 0
            /\ cap_pc[c] # "AwaitingInference"
            /\ detection_result[c] = None )
          => /\ cap_pc[c] = "Reading"
             /\ produced = 0
             /\ detection_queue = <<>> /\ put_waiters = <<>>

\* C20 witness: the latest inference call of a camera has returned None and
\* its task is reading again.
C20_Witness ==
    \E c \in CamIds :
        /\ last_detection_time[c] # 0
        /\ cap_pc[c] = "Reading"
        /\ detection_result[c] = None

\* C21: in Running a send is attempted for every configured recipient, once
\* each and in order; a delivery that failed is logged as an error for that
\* recipient, the recipients after it are still tried, and a success is
\* logged only for a recipient whose delivery did not fail.
C21_SendPerRecipient ==
    /\ \A i \in 1 .. Len(send_log) :
          /\ send_log[i].logged = "success"
                => send_log[i].delivery = "delivered"
          /\ send_log[i].delivery # "delivered"
                => send_log[i].logged = "error"
    /\ report_pc = "Done"
          => [i \in 1 .. Len(send_log) |-> send_log[i].number]
                = ConfiguredRecipients

\* C22: a failure of the registry load (the query or the processing of its
\* rows raises) reaches the caller as an exception instead of being dropped,
\* and after a load the camera set is empty only if a warning was logged.
C22_LoadFailureSurfaced ==
    /\ load_result.failure # None => load_result.ended = "raised"
    /\ (load_result.ended # "none" /\ CAMERAS = {})
          => "warning" \in load_log

\* the step of a camera's task that ends its stage 1
LocateEnds(c) == cap_pc[c] = "Locating" /\ cap_pc'[c] # "Locating"

\* a URL test that did not open the stream
FailedToOpen(test) == test.outcome \in {"closed", "exception"}

\* C23: the locator tests the candidate URLs in list order and selects the
\* first one that opens and yields a frame; a candidate that opens without
\* yielding a frame is passed over; when no candidate succeeds the result is
\* "no working URL" and the wait that follows is the calling loop's backoff.
C23_FirstReadableUrl ==
    [][\A c \in CamIds :
          LocateEnds(c) =>
             LET log == probe_log'[c]
                 n == Len(log)
             IN  /\ n \in 1 .. Len(RtspUrls)
                 /\ \A i \in 1 .. n : log[i].url = RtspUrls[i]
                 /\ \A i \in 1 .. n - 1 : log[i].outcome # "frame"
                 /\ IF log[n].outcome = "frame"
                    THEN /\ working_url'[c] = log[n].url
                         /\ cap_pc'[c] = "Connected"
                    ELSE /\ n = Len(RtspUrls)
                         /\ working_url'[c] = None
                         /\ cap_pc'[c] = "Backoff"]_vars

\* C23 witness: a stage 1 has ended with a URL selected whose test yielded a
\* frame.
C23_Witness ==
    \E c \in CamIds :
        /\ cap_pc[c] = "Connected"
        /\ probe_log[c] # <<>>
        /\ probe_log[c][Len(probe_log[c])].outcome = "frame"
        /\ working_url[c] = probe_log[c][Len(probe_log[c])].url

\* C24: when every candidate URL fails to open, the locating stage ends with
\* a failure after testing each candidate exactly once.
C24_AllFailOnceEach ==
    [][\A c \in CamIds :
          ( /\ LocateEnds(c)
            /\ \A i \in 1 .. Len(probe_log'[c]) : FailedToOpen(probe_log'[c][i]) )
          => /\ [i \in 1 .. Len(probe_log'[c]) |-> probe_log'[c][i].url]
                   = RtspUrls
             /\ working_url'[c] = None
             /\ cap_pc'[c] = "Backoff"]_vars

\* C24 witness: a stage 1 has ended in the backoff with no URL selected,
\* every candidate tested once and none of them opened.
C24_Witness ==
    \E c \in CamIds :
        /\ cap_pc[c] = "Backoff"
        /\ working_url[c] = None
        /\ Len(probe_log[c]) = Len(RtspUrls)
        /\ \A i \in 1 .. Len(probe_log[c]) : FailedToOpen(probe_log[c][i])

\* C25: in every reachable state the detection queue holds at most its
\* capacity of 100 events, however many producers push and however slowly
\* the one consumer drains.
C25_QueueWithinCapacity == QueueSize <= QUEUE_MAXSIZE

\* C25 witness: the queue holds 100 events while a producer's push of one
\* more is pending.
C25_Witness == QueueSize = QUEUE_MAXSIZE /\ put_waiters # <<>>

\* C26: a bulk insert of N rows with chunk size b >= 1 submits every row
\* exactly once and in input order, in ceil(N / b) statements of at most b
\* rows, and commits them, so that N rows are stored; a single row given as
\* a dict counts as a list of one row; an empty list issues no statement and
\* raises nothing.
C26_BulkInsertStoresAll ==
    bi_pc \in {"Done", "Raised"} =>
       LET rows == IF query_values.kind = "dict"
                   THEN <<query_values.value>>
                   ELSE query_values.value
           N == Len(rows)
       IN  /\ bi_pc = "Done" /\ bi_raised = None
           /\ RowsOf(bi_executed) = rows
           /\ Len(bi_executed) = (N + batch_size - 1) \div batch_size
           /\ \A k \in 1 .. Len(bi_executed) :
                 Len(bi_executed[k]) \in 1 .. batch_size
           /\ bi_stored = rows

\* a step of a camera's task that begins with a read of its inner loop
ReadStep(c) ==
    /\ cap_pc[c] = "Reading"
    /\ <<cap_pc[c], consecutive_failures[c], current_frames, last_put[c],
          put_result[c], cap_open[c]>>
          # <<cap_pc'[c], consecutive_failures'[c], current_frames', last_put'[c],
              put_result'[c], cap_open'[c]>>

\* C31: in Reading the consecutive-failure counter goes up by one on each
\* failed read and back to 0 on each successful read; the task leaves Reading
\* for Reconnecting exactly when the counter exceeds the threshold (the 61st
\* failure in a row with a threshold of 60), so every read starts with the
\* counter between 0 and 60 and a successful read among fewer than 61
\* failures prevents the reconnect.
C31_CounterResetsAndTrips ==
    [][\A c \in CamIds :
          ReadStep(c) =>
             /\ consecutive_failures[c] \in 0 .. MAX_CONSECUTIVE_FAILURES
             /\ \/ \* a failed read: nothing is published
                   /\ consecutive_failures'[c] = consecutive_failures[c] + 1
                   /\ current_frames' = current_frames
                   /\ last_put'[c] = last_put[c]
                   /\ cap_pc'[c] \in {"Reading", "Reconnecting"}
                \/ \* a successful read
                   /\ consecutive_failures'[c] = 0
                   /\ cap_pc'[c] # "Reconnecting"
             /\ (cap_pc'[c] = "Reconnecting")
                   <=> (consecutive_failures'[c] = MAX_CONSECUTIVE_FAILURES + 1)
             /\ cap_pc'[c] = "Reconnecting" => ~cap_open'[c]]_vars

\* C31 witness: a task that has published a frame and had an inference
\* result is still in Reading after 60 failed reads in a row.
C31_Witness ==
    \E c \in CamIds :
        /\ cap_pc[c] = "Reading"
        /\ consecutive_failures[c] = MAX_CONSECUTIVE_FAILURES
        /\ put_result[c] = "stored"
        /\ current_frames[c] # None
        /\ detection_result[c] # None

\* C32: every probe connection opened by the locating stage is released
\* before the stage ends, whether the candidate succeeded, opened without a
\* frame, did not open, or the open or the read raised an exception; no
\* probe connection is open while the persistent capture is open.
C32_ProbesReleased ==
    \A c \in CamIds :
        /\ ~probe_open[c]
        /\ cap_open[c] => ~probe_open[c]

\* C33: after load_camera_configurations has finished, whether it succeeded,
\* found no cameras or failed, the camera registry, the frame cache and the
\* lock map have the same camera ids and every cache entry is absent, and
\* the next put of a capture task and the next get of a stream consumer for
\* a camera the registry held before the load do not fail.
C33_ReloadKeepsRunningUsers ==
    load_result.ended # "none" =>
        /\ DOMAIN current_frames = CAMERAS
        /\ DOMAIN frame_locks = CAMERAS
        /\ \A c \in CAMERAS : current_frames[c] = None
        /\ \A c \in CamIds :
              /\ CachePutOutcome(frame_locks, c) # "KeyError"
              /\ CacheGet(frame_locks, current_frames, c).out # "KeyError"
        /\ \A k \in Consumers :
              con_cam[k] \in CamIds => con_out[k] # "KeyError"

\* C34: the capture loop never resets a camera's cache entry to absent: once
\* a frame of a camera is published, the entry stays present through stream
\* loss, Reconnecting and Locating, so between reloads of the registry the
\* active-camera count of the status endpoint never decreases, and it is at
\* most the total camera count.
C34_EntriesStayPresent ==
    [][/\ \A c \in DOMAIN current_frames :
             current_frames[c] # None =>
                (c \in DOMAIN current_frames' /\ current_frames'[c] # None)
       /\ ActiveCameras(current_frames') >= ActiveCameras(current_frames)
       /\ ActiveCameras(current_frames') <= TotalCameras(CAMERAS')]_vars

\* C34 witness: a camera whose frame was published has lost its stream, has
\* failed to reopen its URL and is locating again, and the status endpoint
\* still counts it as active.
C34_Witness ==
    \E c \in CamIds :
        /\ cap_pc[c] = "Locating"
        /\ consecutive_failures[c] = MAX_CONSECUTIVE_FAILURES + 1
        /\ current_frames[c] # None
        /\ ActiveCameras(current_frames) >= 1

\* a step of detection_processor: a get or a timeout and the pass after it
ProcessorStep ==
    /\ dp_pc = "Waiting"
    /\ <<dequeued, batch, dp_pc, get_deadline, flush_calls>>
          # <<dequeued', batch', dp_pc', get_deadline', flush_calls'>>

\* C36: when detection_processor observes the stop flag it exits without
\* flushing: the events in its batch (at most 9, none older than the age
\* threshold) and the events still in the detection queue are never
\* persisted.
C36_StopDropsPending ==
    [][/\ (ProcessorStep /\ ~stream_active) => dp_pc' \in {"Exited", "Dead"}
       /\ (dp_pc = "Waiting" /\ dp_pc' = "Exited") =>
             /\ ~stream_active
             /\ flush_calls' = flush_calls
             /\ inserted' = inserted
             /\ Len(batch') < SIZE_THRESHOLD
             /\ batch' # <<>> =>
                   time_time - batch_first_time' <= AGE_THRESHOLD
       /\ dp_pc = "Exited" =>
             /\ dp_pc' = "Exited"
             /\ flush_calls' = flush_calls
             /\ inserted' = inserted
             /\ batch' = batch
             /\ dequeued' = dequeued
             /\ \A i \in 1 .. Len(detection_queue) :
                   detection_queue'[i] = detection_queue[i]]_vars

\* C36 witness: detection_processor has exited with events in its batch and
\* events in the queue, none of them persisted.
C36_Witness ==
    /\ dp_pc = "Exited"
    /\ Len(batch) \in 1 .. SIZE_THRESHOLD - 1
    /\ detection_queue # <<>>
    /\ \A i \in 1 .. Len(batch) : \A j \in 1 .. Len(inserted) :
          inserted[j] # batch[i]

\* C37: bulk_insert_query is all-or-nothing per call: the one commit happens
\* only after every chunk was executed; if the insert of any chunk fails, no
\* row of the call is committed and the error is raised again to the caller.
C37_AllOrNothing ==
    /\ bi_pc = "Looping" => bi_stored = <<>>
    /\ bi_pc = "Raised" => (bi_stored = <<>> /\ bi_raised # None)
    /\ bi_pc = "Done" =>
          /\ bi_raised = None
          /\ RowsOf(bi_executed) = AsRowList(query_values)
          /\ bi_stored = AsRowList(query_values)

\* C37 witness: a call with more rows than one chunk holds has failed, the
\* error raised to its caller and no row stored.
C37_Witness ==
    /\ bi_pc = "Raised"
    /\ bi_raised # None
    /\ Len(AsRowList(query_values)) > batch_size
    /\ bi_stored = <<>>

\* the caller's latest SET NX has been executed by the server
MessageServed(c) ==
    mp_pc[c] = "SetReplied" \/ (mp_pc[c] = "Idle" /\ mp_result[c] # None)

\* of the latest calls of two callers for one message id, two that created
\* the key are a full expiry apart
MessageOneCreator ==
    \A c1, c2 \in Callers :
        ( /\ c1 # c2
          /\ MessageServed(c1) /\ MessageServed(c2)
          /\ mp_id[c1] = mp_id[c2]
          /\ mp_absent[c1] /\ mp_absent[c2] )
        => \/ mp_at[c1] - mp_at[c2] >= MESSAGE_ID_EXPIRATION_SECONDS
           \/ mp_at[c2] - mp_at[c1] >= MESSAGE_ID_EXPIRATION_SECONDS

\* C38: for a message id, is_message_processed returns True for exactly one
\* call, the one that creates the key, and False for every other call made
\* within the 300 s that the key lives, under any interleaving of concurrent
\* calls; once the key has expired the next call returns True again.
C38_OneTruePerWindow ==
    [][/\ \A c \in Callers :
             /\ (mp_pc[c] = "SetSent" /\ mp_pc'[c] = "SetReplied") =>
                   /\ mp_absent'[c] <=> (mp_store[mp_id[c]] <= mp_now)
                   /\ mp_absent'[c] =>
                         mp_store'[mp_id[c]]
                            = mp_now + MESSAGE_ID_EXPIRATION_SECONDS
                   /\ ~mp_absent'[c] => mp_store' = mp_store
             /\ (mp_pc[c] = "SetReplied" /\ mp_pc'[c] = "Idle") =>
                   /\ mp_result'[c] \in {"True", "False"}
                   /\ (mp_result'[c] = "True") <=> mp_absent[c]
       /\ MessageOneCreator']_vars

\* C38 witness: two calls for one message id were executed at the same
\* instant; one has returned True and the other False.
C38_Witness ==
    \E c1, c2 \in Callers :
        /\ c1 # c2
        /\ mp_pc[c1] = "Idle" /\ mp_pc[c2] = "Idle"
        /\ mp_id[c1] = mp_id[c2]
        /\ mp_at[c1] = mp_at[c2]
        /\ mp_result[c1] = "True"
        /\ mp_result[c2] = "False"

Next ==
    \/ NextNightly
    \/ NextCache
    \/ NextShutdown
    \/ NextIsolation
    \/ NextThrottle
    \/ NextBatcher
    \/ NextOverflow
    \/ NextReport
    \/ NextRegistry
    \/ NextLocator
    \/ NextBulkInsert
    \/ NextReading
    \/ NextStop
    \/ NextMessage

Spec == Init /\ [][Next]_vars
=============================================================================
